---------------------------- MODULE Spec2Model ----------------------------
(***************************************************************************)
(* log-webhook: an HTTP endpoint that validates a request body as JSON,    *)
(* compacts it and prints it as one line on standard output (src/main.go). *)
(*                                                                         *)
(* A byte is a one-character string; a body, a header value and the        *)
(* standard output stream are sequences of bytes.  The Go standard library *)
(* functions main.go calls (json.Compact, gzip.NewReader, io.ReadAll,      *)
(* http.Error, http.ServeMux, fmt.Println) are modelled by what they do to *)
(* those bytes, at the call sites that MODEL_MAP.json names.               *)
(***************************************************************************)
EXTENDS Integers, Sequences, FiniteSets, TLC

(***************************************************************************)
(* Bytes                                                                   *)
(***************************************************************************)
Digits == {"0", "1", "2", "3", "4", "5", "6", "7", "8", "9"}

HexDigits == Digits \cup {"a", "b", "c", "d", "e", "f", "A", "B", "C", "D", "E", "F"}

\* The control bytes (c < 0x20) a TLA+ string can spell.
ControlBytes == {"\t", "\n", "\f", "\r"}

\* encoding/json scanner.go isSpace: the four JSON whitespace bytes.
isSpace(c) == c \in {" ", "\t", "\r", "\n"}

(***************************************************************************)
(* json.Compact (main.go:48): the scanner of encoding/json, one step       *)
(* function per scanner state.  A scanner is                               *)
(*   [step, parseState, endTop, err]                                       *)
(* and a step returns the next scanner and the scan code.  parseState is   *)
(* the stack of "parseObjectKey" / "parseObjectValue" / "parseArrayValue". *)
(* The nesting limit of 10000 is beyond every body considered here.        *)
(***************************************************************************)
Ret(s, v) == [s |-> s, v |-> v]

\* scanner.reset
scanReset == [step |-> "stateBeginValue", parseState |-> <<>>, endTop |-> FALSE, err |-> FALSE]

\* scanner.error: record the error, every later step is stateError.
scanErr(s) == Ret([s EXCEPT !.step = "stateError", !.err = TRUE], "scanError")

Goto(s, st, v) == Ret([s EXCEPT !.step = st], v)

pushParseState(s, newParseState, st, v) ==
    Ret([s EXCEPT !.step = st, !.parseState = Append(@, newParseState)], v)

popParseState(s) ==
    LET n == Len(s.parseState) - 1
        ps == SubSeq(s.parseState, 1, n)
    IN  IF n = 0
        THEN [s EXCEPT !.parseState = ps, !.step = "stateEndTop", !.endTop = TRUE]
        ELSE [s EXCEPT !.parseState = ps, !.step = "stateEndValue"]

replaceTop(s, p) == [s EXCEPT !.parseState[Len(s.parseState)] = p]

\* After the top-level value: only space may follow; the complaint about
\* anything else is raised on the next call.
stateEndTop(s, c) ==
    IF ~isSpace(c) THEN Ret(scanErr(s).s, "scanEnd") ELSE Ret(s, "scanEnd")

stateEndValue(s, c) ==
    LET n == Len(s.parseState) IN
    IF n = 0
    THEN stateEndTop([s EXCEPT !.step = "stateEndTop", !.endTop = TRUE], c)
    ELSE IF isSpace(c)
    THEN Goto(s, "stateEndValue", "scanSkipSpace")
    ELSE LET ps == s.parseState[n] IN
         CASE ps = "parseObjectKey" ->
                IF c = ":"
                THEN Goto(replaceTop(s, "parseObjectValue"), "stateBeginValue", "scanObjectKey")
                ELSE scanErr(s)
           [] ps = "parseObjectValue" ->
                IF c = ","
                THEN Goto(replaceTop(s, "parseObjectKey"), "stateBeginString", "scanObjectValue")
                ELSE IF c = "}"
                THEN Ret(popParseState(s), "scanEndObject")
                ELSE scanErr(s)
           [] ps = "parseArrayValue" ->
                IF c = ","
                THEN Goto(s, "stateBeginValue", "scanArrayValue")
                ELSE IF c = "]"
                THEN Ret(popParseState(s), "scanEndArray")
                ELSE scanErr(s)
           [] OTHER -> scanErr(s)

stateBeginValue(s, c) ==
    IF isSpace(c) THEN Ret(s, "scanSkipSpace")
    ELSE CASE c = "{" -> pushParseState(s, "parseObjectKey", "stateBeginStringOrEmpty", "scanBeginObject")
           [] c = "[" -> pushParseState(s, "parseArrayValue", "stateBeginValueOrEmpty", "scanBeginArray")
           [] c = "\"" -> Goto(s, "stateInString", "scanBeginLiteral")
           [] c = "-" -> Goto(s, "stateNeg", "scanBeginLiteral")
           [] c = "0" -> Goto(s, "state0", "scanBeginLiteral")
           [] c = "t" -> Goto(s, "stateT", "scanBeginLiteral")
           [] c = "f" -> Goto(s, "stateF", "scanBeginLiteral")
           [] c = "n" -> Goto(s, "stateN", "scanBeginLiteral")
           [] c \in Digits \ {"0"} -> Goto(s, "state1", "scanBeginLiteral")
           [] OTHER -> scanErr(s)

stateBeginValueOrEmpty(s, c) ==
    IF isSpace(c) THEN Ret(s, "scanSkipSpace")
    ELSE IF c = "]" THEN stateEndValue(s, c)
    ELSE stateBeginValue(s, c)

stateBeginString(s, c) ==
    IF isSpace(c) THEN Ret(s, "scanSkipSpace")
    ELSE IF c = "\"" THEN Goto(s, "stateInString", "scanBeginLiteral")
    ELSE scanErr(s)

stateBeginStringOrEmpty(s, c) ==
    IF isSpace(c) THEN Ret(s, "scanSkipSpace")
    ELSE IF c = "}" THEN stateEndValue(replaceTop(s, "parseObjectValue"), c)
    ELSE stateBeginString(s, c)

stateInString(s, c) ==
    IF c = "\"" THEN Goto(s, "stateEndValue", "scanContinue")
    ELSE IF c = "\\" THEN Goto(s, "stateInStringEsc", "scanContinue")
    ELSE IF c \in ControlBytes THEN scanErr(s)
    ELSE Ret(s, "scanContinue")

stateInStringEsc(s, c) ==
    IF c \in {"b", "f", "n", "r", "t", "\\", "/", "\""}
    THEN Goto(s, "stateInString", "scanContinue")
    ELSE IF c = "u" THEN Goto(s, "stateInStringEscU", "scanContinue")
    ELSE scanErr(s)

\* stateInStringEscU, ...U1, ...U12, ...U123: four hexadecimal digits.
stateInStringEscHex(s, c, next) ==
    IF c \in HexDigits THEN Goto(s, next, "scanContinue") ELSE scanErr(s)

stateE0(s, c) ==
    IF c \in Digits THEN Ret(s, "scanContinue") ELSE stateEndValue(s, c)

stateESign(s, c) ==
    IF c \in Digits THEN Goto(s, "stateE0", "scanContinue") ELSE scanErr(s)

stateE(s, c) ==
    IF c \in {"+", "-"} THEN Goto(s, "stateESign", "scanContinue") ELSE stateESign(s, c)

stateDot0(s, c) ==
    IF c \in Digits THEN Ret(s, "scanContinue")
    ELSE IF c \in {"e", "E"} THEN Goto(s, "stateE", "scanContinue")
    ELSE stateEndValue(s, c)

stateDot(s, c) ==
    IF c \in Digits THEN Goto(s, "stateDot0", "scanContinue") ELSE scanErr(s)

state0(s, c) ==
    IF c = "." THEN Goto(s, "stateDot", "scanContinue")
    ELSE IF c \in {"e", "E"} THEN Goto(s, "stateE", "scanContinue")
    ELSE stateEndValue(s, c)

state1(s, c) ==
    IF c \in Digits THEN Goto(s, "state1", "scanContinue") ELSE state0(s, c)

stateNeg(s, c) ==
    IF c = "0" THEN Goto(s, "state0", "scanContinue")
    ELSE IF c \in Digits THEN Goto(s, "state1", "scanContinue")
    ELSE scanErr(s)

\* stateT..stateTru, stateF..stateFals, stateN..stateNul: the next letter of
\* the literal, then (after the last one) stateEndValue.
stateLiteral(s, c, want, next) ==
    IF c = want THEN Goto(s, next, "scanContinue") ELSE scanErr(s)

scanStep(s, c) ==
    LET st == s.step IN
    CASE st = "stateBeginValue" -> stateBeginValue(s, c)
      [] st = "stateBeginValueOrEmpty" -> stateBeginValueOrEmpty(s, c)
      [] st = "stateBeginString" -> stateBeginString(s, c)
      [] st = "stateBeginStringOrEmpty" -> stateBeginStringOrEmpty(s, c)
      [] st = "stateEndValue" -> stateEndValue(s, c)
      [] st = "stateEndTop" -> stateEndTop(s, c)
      [] st = "stateInString" -> stateInString(s, c)
      [] st = "stateInStringEsc" -> stateInStringEsc(s, c)
      [] st = "stateInStringEscU" -> stateInStringEscHex(s, c, "stateInStringEscU1")
      [] st = "stateInStringEscU1" -> stateInStringEscHex(s, c, "stateInStringEscU12")
      [] st = "stateInStringEscU12" -> stateInStringEscHex(s, c, "stateInStringEscU123")
      [] st = "stateInStringEscU123" -> stateInStringEscHex(s, c, "stateInString")
      [] st = "stateNeg" -> stateNeg(s, c)
      [] st = "state1" -> state1(s, c)
      [] st = "state0" -> state0(s, c)
      [] st = "stateDot" -> stateDot(s, c)
      [] st = "stateDot0" -> stateDot0(s, c)
      [] st = "stateE" -> stateE(s, c)
      [] st = "stateESign" -> stateESign(s, c)
      [] st = "stateE0" -> stateE0(s, c)
      [] st = "stateT" -> stateLiteral(s, c, "r", "stateTr")
      [] st = "stateTr" -> stateLiteral(s, c, "u", "stateTru")
      [] st = "stateTru" -> stateLiteral(s, c, "e", "stateEndValue")
      [] st = "stateF" -> stateLiteral(s, c, "a", "stateFa")
      [] st = "stateFa" -> stateLiteral(s, c, "l", "stateFal")
      [] st = "stateFal" -> stateLiteral(s, c, "s", "stateFals")
      [] st = "stateFals" -> stateLiteral(s, c, "e", "stateEndValue")
      [] st = "stateN" -> stateLiteral(s, c, "u", "stateNu")
      [] st = "stateNu" -> stateLiteral(s, c, "l", "stateNul")
      [] st = "stateNul" -> stateLiteral(s, c, "l", "stateEndValue")
      [] OTHER -> Ret(s, "scanError")

\* Mutant of scanEofIsError: the end of the input is not checked, only an
\* error already met counts.
scanEofUnchecked(s) == s.err

\* scanner.eof: TRUE when the input ended in error (scanError).
scanEofIsError(s) ==
    IF s.err THEN TRUE
    ELSE IF s.endTop THEN FALSE
    ELSE ~scanStep(s, " ").s.endTop

\* Mutant of skipsByte: v == scanSkipSpace in place of v >= scanSkipSpace
\* for the bytes to drop.
skipsByteOnlySpace(v) == v \in {"scanSkipSpace", "scanError"}

\* v >= scanSkipSpace: the codes scanSkipSpace, scanEnd and scanError.
skipsByte(v) == v \in {"scanSkipSpace", "scanEnd", "scanError"}

\* The loop of appendCompact: a byte whose code is scanSkipSpace or scanEnd is
\* dropped (the bytes src[start:i] before it are flushed), scanError stops
\* the loop.  Yields the scanner at the end, dst and start.  (The result of
\* each step is bound as the element of a one-element set.)
RECURSIVE compactLoop(_, _, _, _, _)
compactLoop(scan, src, i, start, dst) ==
    IF i > Len(src)
    THEN [scan |-> scan, dst |-> dst, start |-> start]
    ELSE CHOOSE out \in
           { IF skipsByte(r.v)
             THEN IF r.v = "scanError"
                  THEN [scan |-> r.s, dst |-> dst, start |-> start]
                  ELSE compactLoop(r.s, src, i + 1, i + 1, dst \o SubSeq(src, start, i - 1))
             ELSE compactLoop(r.s, src, i + 1, start, dst)
             : r \in {scanStep(scan, src[i])} } : TRUE

\* json.Compact(dst, src) on an empty dst: the error, and dst afterwards
\* (empty on error, the compacted bytes otherwise).
jsonCompact(src) ==
    CHOOSE out \in
      { IF scanEofIsError(r.scan)
        THEN [err |-> TRUE, dst |-> <<>>]
        ELSE [err |-> FALSE, dst |-> r.dst \o SubSeq(src, r.start, Len(src))]
        : r \in {compactLoop(scanReset, src, 1, 1, <<>>)} } : TRUE

(***************************************************************************)
(* What the claims mean by "well-formed JSON" and "insignificant            *)
(* whitespace": the grammar of RFC 8259 as a recursive-descent recogniser, *)
(* written independently of the scanner above.  A recogniser takes the     *)
(* text and a position and yields the position after what it recognised,   *)
(* or 0.                                                                   *)
(***************************************************************************)
At(b, i) == IF i >= 1 /\ i <= Len(b) THEN b[i] ELSE "EOF"

RECURSIVE SkipWs(_, _)
SkipWs(b, i) == IF At(b, i) \in {" ", "\t", "\n", "\r"} THEN SkipWs(b, i + 1) ELSE i

RECURSIVE GDigits(_, _)
GDigits(b, i) == IF At(b, i) \in Digits THEN GDigits(b, i + 1) ELSE i

\* word at position i
GWord(b, i, w) ==
    IF i + Len(w) - 1 <= Len(b) /\ SubSeq(b, i, i + Len(w) - 1) = w THEN i + Len(w) ELSE 0

\* characters of a string up to and including the closing quote
RECURSIVE GChars(_, _)
GChars(b, i) ==
    LET c == At(b, i) IN
    IF c = "EOF" \/ c \in ControlBytes THEN 0
    ELSE IF c = "\"" THEN i + 1
    ELSE IF c = "\\"
    THEN LET e == At(b, i + 1) IN
         IF e \in {"\"", "\\", "/", "b", "f", "n", "r", "t"} THEN GChars(b, i + 2)
         ELSE IF e = "u" /\ \A k \in 2..5 : At(b, i + k) \in HexDigits THEN GChars(b, i + 6)
         ELSE 0
    ELSE GChars(b, i + 1)

GString(b, i) == IF At(b, i) = "\"" THEN GChars(b, i + 1) ELSE 0

\* number = [ - ] int [ . digits ] [ e|E [ +|- ] digits ]
GNumber(b, i) ==
    LET p == IF At(b, i) = "-" THEN i + 1 ELSE i
        q == IF At(b, p) = "0" THEN p + 1
             ELSE IF At(b, p) \in Digits THEN GDigits(b, p) ELSE 0
        r == IF q = 0 THEN 0
             ELSE IF At(b, q) = "."
             THEN (IF At(b, q + 1) \in Digits THEN GDigits(b, q + 1) ELSE 0)
             ELSE q
        e == IF r = 0 THEN 0
             ELSE IF At(b, r) \in {"e", "E"}
             THEN LET t == IF At(b, r + 1) \in {"+", "-"} THEN r + 2 ELSE r + 1
                  IN  IF At(b, t) \in Digits THEN GDigits(b, t) ELSE 0
             ELSE r
    IN  e

RECURSIVE GValue(_, _), GMembers(_, _), GElements(_, _)
GValue(b, i) ==
    LET c == At(b, i) IN
    CASE c = "{" -> LET j == SkipWs(b, i + 1) IN
                    IF At(b, j) = "}" THEN j + 1 ELSE GMembers(b, j)
      [] c = "[" -> LET j == SkipWs(b, i + 1) IN
                    IF At(b, j) = "]" THEN j + 1 ELSE GElements(b, j)
      [] c = "\"" -> GString(b, i)
      [] c = "t" -> GWord(b, i, <<"t", "r", "u", "e">>)
      [] c = "f" -> GWord(b, i, <<"f", "a", "l", "s", "e">>)
      [] c = "n" -> GWord(b, i, <<"n", "u", "l", "l">>)
      [] c = "-" \/ c \in Digits -> GNumber(b, i)
      [] OTHER -> 0

\* member *( , member ) } with member = string : value
GMembers(b, i) ==
    LET k == GString(b, i)
        j == IF k = 0 THEN 0 ELSE SkipWs(b, k)
        v == IF j = 0 \/ At(b, j) # ":" THEN 0 ELSE GValue(b, SkipWs(b, j + 1))
        m == IF v = 0 THEN 0 ELSE SkipWs(b, v)
    IN  IF m = 0 THEN 0
        ELSE IF At(b, m) = "," THEN GMembers(b, SkipWs(b, m + 1))
        ELSE IF At(b, m) = "}" THEN m + 1
        ELSE 0

\* value *( , value ) ]
GElements(b, i) ==
    LET v == GValue(b, i)
        m == IF v = 0 THEN 0 ELSE SkipWs(b, v)
    IN  IF m = 0 THEN 0
        ELSE IF At(b, m) = "," THEN GElements(b, SkipWs(b, m + 1))
        ELSE IF At(b, m) = "]" THEN m + 1
        ELSE 0

\* JSON-text = ws value ws
WellFormedJSON(b) ==
    LET v == GValue(b, SkipWs(b, 1)) IN v # 0 /\ SkipWs(b, v) = Len(b) + 1

\* b without its insignificant whitespace: the whitespace bytes outside
\* string literals (inStr: inside a literal, esc: after a backslash in one).
RECURSIVE StripFrom(_, _, _, _)
StripFrom(b, i, inStr, esc) ==
    IF i > Len(b) THEN <<>>
    ELSE LET c == b[i] IN
         IF inStr
         THEN <<c>> \o StripFrom(b, i + 1, esc \/ c # "\"", ~esc /\ c = "\\")
         ELSE IF c \in {" ", "\t", "\n", "\r"}
         THEN StripFrom(b, i + 1, FALSE, FALSE)
         ELSE <<c>> \o StripFrom(b, i + 1, c = "\"", FALSE)

StripInsignificant(b) == StripFrom(b, 1, FALSE, FALSE)

(***************************************************************************)
(* strings.ToLower and strings.Contains (main.go:27)                       *)
(***************************************************************************)
UpperLetters == <<"A", "B", "C", "D", "E", "F", "G", "H", "I", "J", "K", "L", "M",
                  "N", "O", "P", "Q", "R", "S", "T", "U", "V", "W", "X", "Y", "Z">>

LowerLetters == <<"a", "b", "c", "d", "e", "f", "g", "h", "i", "j", "k", "l", "m",
                  "n", "o", "p", "q", "r", "s", "t", "u", "v", "w", "x", "y", "z">>

toLowerByte(c) ==
    IF \E k \in 1..Len(UpperLetters) : UpperLetters[k] = c
    THEN LowerLetters[CHOOSE k \in 1..Len(UpperLetters) : UpperLetters[k] = c]
    ELSE c

stringsToLower(h) == [k \in 1..Len(h) |-> toLowerByte(h[k])]

stringsContains(h, sub) ==
    \E k \in 0..(Len(h) - Len(sub)) : SubSeq(h, k + 1, k + Len(sub)) = sub

\* Mutant of isGzipEncoded: the header is compared without strings.ToLower.
isGzipEncodedCaseSensitive(enc) == stringsContains(enc, <<"g", "z", "i", "p">>)

\* The condition of main.go:27 on the Content-Encoding value ("" when absent).
isGzipEncoded(enc) == stringsContains(stringsToLower(enc), <<"g", "z", "i", "p">>)

(***************************************************************************)
(* compress/gzip (main.go:28, 39).  A gzip stream is a series of members;  *)
(* a member is kept abstract as                                            *)
(*    header  length  payload  trailer                                     *)
(* where "GZ" stands for the fixed member header, the length byte for the  *)
(* framing of the deflate data and the trailer for CRC-32 and size.        *)
(***************************************************************************)
GzHeader == "GZ"

GzLen(n) == "n" \o ToString(n)

byteCode(c) ==
    CASE c \in Digits -> 1
      [] isSpace(c) -> 2
      [] c \in {"{", "}"} -> 3
      [] c \in {"[", "]"} -> 4
      [] c = "\"" -> 5
      [] OTHER -> 6

RECURSIVE checksum(_, _)
checksum(p, k) == IF k > Len(p) THEN 0 ELSE (k * byteCode(p[k]) + checksum(p, k + 1)) % 7

GzTrailer(p) == "c" \o ToString(checksum(p, 1))

\* What a gzip writer produces for payload p: one member.
gzipCompress(p) == <<GzHeader, GzLen(Len(p))>> \o p \o <<GzTrailer(p)>>

\* gzip.NewReader: reads the first member header; an error when the stream
\* is empty or its first bytes are no gzip header.
gzipNewReader(b) ==
    IF Len(b) = 0 \/ b[1] # GzHeader
    THEN [err |-> TRUE, rest |-> <<>>]
    ELSE [err |-> FALSE, rest |-> Tail(b)]

\* Reading a gzip reader to its end (multistream): the payload of the member
\* whose header was read, its trailer verified, then the next member if any.
\* data is the stream after a member header.
RECURSIVE gzipReadMembers(_)
gzipReadMembers(data) ==
    IF Len(data) = 0 \/ ~\E n \in 0..Len(data) : GzLen(n) = data[1]
    THEN [err |-> TRUE, out |-> <<>>]
    ELSE LET n == CHOOSE n \in 0..Len(data) : GzLen(n) = data[1]
             payload == SubSeq(data, 2, n + 1)
             rest == SubSeq(data, n + 3, Len(data))
         IN  IF Len(data) < n + 2 \/ data[n + 2] # GzTrailer(payload)
             THEN [err |-> TRUE, out |-> <<>>]
             ELSE IF rest = <<>>
             THEN [err |-> FALSE, out |-> payload]
             ELSE IF rest[1] # GzHeader
             THEN [err |-> TRUE, out |-> <<>>]
             ELSE LET more == gzipReadMembers(Tail(rest)) IN
                  IF more.err THEN more ELSE [err |-> FALSE, out |-> payload \o more.out]

\* Mutant of ioReadAll: the error of the read is dropped.
ioReadAllUnchecked(rd, broken) ==
    [err |-> FALSE,
     body |-> IF rd.kind = "gzip" THEN gzipReadMembers(rd.data).out ELSE rd.data]

\* io.ReadAll(reader) (main.go:39).  The reader is r.Body itself or the gzip
\* reader over it; a transport failure (broken) surfaces as a read error.
ioReadAll(rd, broken) ==
    IF rd.kind = "gzip"
    THEN LET r == gzipReadMembers(rd.data) IN
         IF r.err \/ broken THEN [err |-> TRUE, body |-> <<>>] ELSE [err |-> FALSE, body |-> r.out]
    ELSE IF broken THEN [err |-> TRUE, body |-> <<>>] ELSE [err |-> FALSE, body |-> rd.data]

(***************************************************************************)
(* Responses (net/http ResponseWriter).  hdr is the Content-Type of the    *)
(* header map; n counts the responses written.                             *)
(***************************************************************************)
NoResponse == [status |-> 0, ctype |-> "", nosniff |-> FALSE, body |-> "", n |-> 0]

\* w.Header().Set("Content-Type", v)
setContentType(r, v) == [r EXCEPT !.ctype = v]

\* w.WriteHeader(code) followed by fmt.Fprint(w, text)
writeResponse(r, code, text) == [r EXCEPT !.status = code, !.body = text, !.n = @ + 1]

\* http.Error(w, msg, code): resets Content-Type to text/plain, sets
\* X-Content-Type-Options, writes the code and the message with a newline.
httpError(r, msg, code) ==
    writeResponse([setContentType(r, "text/plain; charset=utf-8") EXCEPT !.nosniff = TRUE],
                  code, msg \o "\n")

\* Mutant of printlnWrites: the line and its newline in two Write calls.
printlnWritesSplit(s) == <<s, <<"\n">>>>

\* fmt.Println(s) on os.Stdout: the Write calls it makes, one for the whole
\* line with its newline.
printlnWrites(s) == <<s \o <<"\n">>>>

(***************************************************************************)
(* http.ServeMux (main.go:76-84).  A path is the sequence of its segments: *)
(* "/v1/logs" is <<"v1", "logs">>, "/" is <<"">>, a trailing slash is a    *)
(* last segment "", and "//health" is <<"", "health">>.                    *)
(***************************************************************************)
RootPath == <<"">>

HealthPath == <<"health">>

\* main.go:70-73: the endpoint is LOG_ENDPOINT, or /v1/logs when that is empty.
DefaultEndpoint == <<"v1", "logs">>

endpointOf(env) == IF env = <<>> THEN DefaultEndpoint ELSE env

\* path.Clean on the segments: "" and "." are dropped, ".." removes the
\* segment before it.
RECURSIVE pathClean(_, _, _)
pathClean(segs, k, acc) ==
    IF k > Len(segs) THEN acc
    ELSE IF segs[k] \in {"", "."} THEN pathClean(segs, k + 1, acc)
    ELSE IF segs[k] = ".."
    THEN pathClean(segs, k + 1, IF acc = <<>> THEN acc ELSE SubSeq(acc, 1, Len(acc) - 1))
    ELSE pathClean(segs, k + 1, Append(acc, segs[k]))

\* net/http cleanPath: path.Clean, with the trailing slash put back.
cleanPath(segs) ==
    LET np == pathClean(segs, 1, <<>>) IN
    IF np = <<>> THEN RootPath
    ELSE IF segs[Len(segs)] = "" THEN Append(np, "") ELSE np

\* Mutant of muxRoute: the endpoint registered as a subtree that catches
\* every path no other pattern matches.
muxRouteCatchAll(endpoint, method, path) ==
    IF method # "CONNECT" /\ cleanPath(path) # path THEN "redirect"
    ELSE IF path = HealthPath THEN "health"
    ELSE "handler"

\* ServeMux.findHandler for the two patterns main registers: the path of a
\* CONNECT request is matched as it is; any other request whose path is not
\* clean is redirected to the clean form; a path is matched exactly, and no
\* match is the NotFound handler.
muxRoute(endpoint, method, path) ==
    IF method # "CONNECT" /\ cleanPath(path) # path THEN "redirect"
    ELSE IF path = endpoint THEN "handler"
    ELSE IF path = HealthPath THEN "health"
    ELSE "notfound"

(***************************************************************************)
(* Requests.  MaxRequests requests may arrive, each served by its own      *)
(* goroutine.  form and plain are not read by the server: they record how  *)
(* the sender built the body (plain: the bytes it sent or compressed).     *)
(***************************************************************************)
MaxRequests == 2

Requests == 1..MaxRequests

NoRequest == [method |-> "", path |-> <<>>, enc |-> <<>>, body |-> <<>>,
              broken |-> FALSE, form |-> "none", plain |-> <<>>]

Request(m, p, e, b, br, f, pl) ==
    [method |-> m, path |-> p, enc |-> e, body |-> b, broken |-> br, form |-> f, plain |-> pl]

\* Bodies of the handler's tests (part_000:47-99), with shorter keys and values.
BodySingleLine == <<"{", "\"", "s", "\"", ":", " ", "\"", "t", "\"", "}">>

BodyMultiline == <<"{", "\n", " ", "\"", "s", "\"", ":", " ", "1", "\n", "}">>

BodyInvalid == <<"{", "\"", "s", "\"", ":", " ", "}">>

BodyEmpty == <<>>

BodyNonJSON == <<"t", "h", "i", "s">>

BodyArray == <<"[", "{", "\"", "s", "\"", ":", "1", "}", ",", " ", "{", "\"", "s", "\"", ":", "2", "}", "]">>

EncNone == <<>>

EncGzip == <<"g", "z", "i", "p">>

EncMixedCase == <<"G", "Z", "i", "p">>

EncXGzip == <<"x", "-", "g", "z", "i", "p">>

EncBr == <<"b", "r">>

EncZip == <<"z", "i", "p">>

\* The ways a sender may frame a payload p for a gzip Content-Encoding.
Framed(form, p) ==
    CASE form = "raw" -> p
      [] form = "gzip" -> gzipCompress(p)
      [] form = "gzip2" -> gzipCompress(<<>>) \o gzipCompress(p)
      [] form = "truncated" -> SubSeq(gzipCompress(p), 1, Len(p) + 2)
      [] form = "badcrc" -> SubSeq(gzipCompress(p), 1, Len(p) + 2) \o <<"c9">>
      [] form = "trailing" -> gzipCompress(p) \o <<"1">>
      [] form = "headeronly" -> <<GzHeader>>

Sent(m, p, e, f, pl, br) == Request(m, p, e, Framed(f, pl), br, f, pl)

\* The requests of the server specification.
ServerInputs ==
    { Sent("POST", DefaultEndpoint, EncNone, "raw", BodySingleLine, FALSE),
      Sent("GET", DefaultEndpoint, EncNone, "raw", BodySingleLine, FALSE),
      Sent("DELETE", DefaultEndpoint, EncNone, "raw", BodyArray, FALSE),
      Sent("POST", DefaultEndpoint, EncNone, "raw", BodyInvalid, FALSE),
      Sent("PUT", DefaultEndpoint, EncNone, "raw", BodyEmpty, FALSE),
      Sent("POST", DefaultEndpoint, EncNone, "raw", BodySingleLine, TRUE),
      Sent("POST", DefaultEndpoint, EncMixedCase, "gzip", BodySingleLine, FALSE),
      Sent("POST", DefaultEndpoint, EncGzip, "raw", BodySingleLine, FALSE),
      Sent("POST", DefaultEndpoint, EncGzip, "truncated", BodySingleLine, FALSE),
      Sent("POST", <<"custom", "logs">>, EncNone, "raw", BodySingleLine, FALSE),
      Sent("GET", HealthPath, EncNone, "raw", BodyEmpty, FALSE),
      Sent("POST", HealthPath, EncGzip, "raw", BodyInvalid, FALSE),
      Sent("POST", <<"invalid">>, EncNone, "raw", BodySingleLine, FALSE),
      Sent("GET", <<"", "health">>, EncNone, "raw", BodyEmpty, FALSE),
      Sent("POST", <<"v1", "logs", "">>, EncNone, "raw", BodySingleLine, FALSE),
      Sent("POST", <<"v1", ".", "logs">>, EncNone, "raw", BodySingleLine, FALSE),
      Sent("CONNECT", <<"", "health">>, EncNone, "raw", BodyEmpty, FALSE) }

\* LOG_ENDPOINT as the tests set it (part_000:278, 305): unset or /custom/logs.
EndpointEnvs == {<<>>, <<"custom", "logs">>}

(***************************************************************************)
(* State                                                                   *)
(***************************************************************************)
VARIABLES
    endpoint,   \* main.go:70 the configured endpoint
    req,        \* the request each goroutine serves
    pc,         \* where each goroutine is
    reader,     \* main.go:24 reader
    body,       \* main.go:39 body
    compacted,  \* main.go:47 compactedJSON
    wq,         \* Write calls of Println not yet made
    resp,       \* the ResponseWriter of each request
    stdout,     \* os.Stdout: the bytes written so far
    owner,      \* for each byte of stdout, the request that wrote it
    steps       \* for each request, the steps executed so far

vars == <<endpoint, req, pc, reader, body, compacted, wq, resp, stdout, owner, steps>>

NoReader == [kind |-> "none", data |-> <<>>]

InitLocals ==
    /\ reader = [i \in Requests |-> NoReader]
    /\ body = [i \in Requests |-> <<>>]
    /\ compacted = [i \in Requests |-> <<>>]
    /\ wq = [i \in Requests |-> <<>>]
    /\ resp = [i \in Requests |-> NoResponse]
    /\ stdout = <<>>
    /\ owner = <<>>
    /\ steps = [i \in Requests |-> <<>>]

Init ==
    /\ endpoint \in {endpointOf(env) : env \in EndpointEnvs}
    /\ req = [i \in Requests |-> NoRequest]
    /\ pc = [i \in Requests |-> "idle"]
    /\ InitLocals

Did(i, name) == steps' = [steps EXCEPT ![i] = Append(@, name)]

\* A request of the set S arrives; requests are numbered in the order they
\* arrive.
ArriveFrom(i, S) ==
    /\ pc[i] = "idle"
    /\ \A j \in Requests : j < i => pc[j] # "idle"
    /\ \E r \in S : req' = [req EXCEPT ![i] = r]
    /\ pc' = [pc EXCEPT ![i] = "mux"]
    /\ UNCHANGED <<endpoint, reader, body, compacted, wq, resp, stdout, owner, steps>>

Arrive(i) == ArriveFrom(i, ServerInputs)

\* mux.ServeHTTP: choose the handler by path.
Serve(i) ==
    /\ pc[i] = "mux"
    /\ pc' = [pc EXCEPT ![i] = muxRoute(endpoint, req[i].method, req[i].path)]
    /\ Did(i, "mux")
    /\ UNCHANGED <<endpoint, req, reader, body, compacted, wq, resp, stdout, owner>>

\* main.go:80-84, the health handler.
HealthHandler(i) ==
    /\ pc[i] = "health"
    /\ resp' = [resp EXCEPT ![i] =
                  writeResponse(setContentType(@, "application/json"), 200, "{\"status\":\"healthy\"}")]
    /\ pc' = [pc EXCEPT ![i] = "done"]
    /\ Did(i, "health")
    /\ UNCHANGED <<endpoint, req, reader, body, compacted, wq, stdout, owner>>

\* http.NotFound, what the mux serves when no pattern matches.
NotFoundHandler(i) ==
    /\ pc[i] = "notfound"
    /\ resp' = [resp EXCEPT ![i] = httpError(@, "404 page not found", 404)]
    /\ pc' = [pc EXCEPT ![i] = "done"]
    /\ Did(i, "notfound")
    /\ UNCHANGED <<endpoint, req, reader, body, compacted, wq, stdout, owner>>

\* http.Redirect to the clean path, 301 Moved Permanently.
RedirectHandler(i) ==
    /\ pc[i] = "redirect"
    /\ resp' = [resp EXCEPT ![i] =
                  writeResponse(IF req[i].method \in {"GET", "HEAD"}
                                THEN setContentType(@, "text/html; charset=utf-8") ELSE @,
                                301, "")]
    /\ pc' = [pc EXCEPT ![i] = "done"]
    /\ Did(i, "redirect")
    /\ UNCHANGED <<endpoint, req, reader, body, compacted, wq, stdout, owner>>

(***************************************************************************)
(* createLogHandler (main.go:16-61), one action per statement that can     *)
(* return or that touches the shared standard output.                      *)
(***************************************************************************)
ErrGzipReader == "{\"error\":\"Failed to create gzip reader\"}"

ErrReadBody == "{\"error\":\"Failed to read request body\"}"

ErrInvalidJSON == "{\"error\":\"Invalid JSON format\"}"

StatusSuccess == "{\"status\":\"success\"}"

\* Mutant of HandlerStart: only POST is served.
HandlerStartPostOnly(i) ==
    /\ pc[i] = "handler"
    /\ LET w == setContentType(resp[i], "application/json") IN
       IF req[i].method # "POST"
       THEN /\ resp' = [resp EXCEPT ![i] = httpError(w, "{\"error\":\"Method not allowed\"}", 405)]
            /\ pc' = [pc EXCEPT ![i] = "done"]
            /\ UNCHANGED reader
       ELSE IF isGzipEncoded(req[i].enc)
       THEN LET g == gzipNewReader(req[i].body) IN
            IF g.err
            THEN /\ resp' = [resp EXCEPT ![i] = httpError(w, ErrGzipReader, 400)]
                 /\ pc' = [pc EXCEPT ![i] = "done"]
                 /\ UNCHANGED reader
            ELSE /\ resp' = [resp EXCEPT ![i] = w]
                 /\ reader' = [reader EXCEPT ![i] = [kind |-> "gzip", data |-> g.rest]]
                 /\ pc' = [pc EXCEPT ![i] = "read"]
       ELSE /\ resp' = [resp EXCEPT ![i] = w]
            /\ reader' = [reader EXCEPT ![i] = [kind |-> "body", data |-> req[i].body]]
            /\ pc' = [pc EXCEPT ![i] = "read"]
    /\ Did(i, "handler")
    /\ UNCHANGED <<endpoint, req, body, compacted, wq, stdout, owner>>

\* main.go:19-36: set the response header, choose the reader.
HandlerStart(i) ==
    /\ pc[i] = "handler"
    /\ LET w == setContentType(resp[i], "application/json") IN
       IF isGzipEncoded(req[i].enc)
       THEN LET g == gzipNewReader(req[i].body) IN
            IF g.err
            THEN /\ resp' = [resp EXCEPT ![i] = httpError(w, ErrGzipReader, 400)]
                 /\ pc' = [pc EXCEPT ![i] = "done"]
                 /\ UNCHANGED reader
            ELSE /\ resp' = [resp EXCEPT ![i] = w]
                 /\ reader' = [reader EXCEPT ![i] = [kind |-> "gzip", data |-> g.rest]]
                 /\ pc' = [pc EXCEPT ![i] = "read"]
       ELSE /\ resp' = [resp EXCEPT ![i] = w]
            /\ reader' = [reader EXCEPT ![i] = [kind |-> "body", data |-> req[i].body]]
            /\ pc' = [pc EXCEPT ![i] = "read"]
    /\ Did(i, "handler")
    /\ UNCHANGED <<endpoint, req, body, compacted, wq, stdout, owner>>

\* Mutant of HandlerRead: a failed read is tried again instead of answered.
HandlerReadRetry(i) ==
    /\ pc[i] = "read"
    /\ LET r == ioReadAll(reader[i], req[i].broken) IN
       IF r.err
       THEN /\ pc' = [pc EXCEPT ![i] = "read"]
            /\ UNCHANGED <<body, resp>>
       ELSE /\ body' = [body EXCEPT ![i] = r.body]
            /\ pc' = [pc EXCEPT ![i] = "compact"]
            /\ UNCHANGED resp
    /\ steps' = [steps EXCEPT ![i] = IF Len(@) < 4 THEN Append(@, "read") ELSE @]
    /\ UNCHANGED <<endpoint, req, reader, compacted, wq, stdout, owner>>

\* main.go:39-44: read the body.
HandlerRead(i) ==
    /\ pc[i] = "read"
    /\ LET r == ioReadAll(reader[i], req[i].broken) IN
       IF r.err
       THEN /\ resp' = [resp EXCEPT ![i] = httpError(@, ErrReadBody, 400)]
            /\ pc' = [pc EXCEPT ![i] = "done"]
            /\ UNCHANGED body
       ELSE /\ body' = [body EXCEPT ![i] = r.body]
            /\ pc' = [pc EXCEPT ![i] = "compact"]
            /\ UNCHANGED resp
    /\ Did(i, "read")
    /\ UNCHANGED <<endpoint, req, reader, compacted, wq, stdout, owner>>

\* Mutant of HandlerCompact: the return after the error response is missing,
\* so the handler goes on to log the (empty) buffer.
HandlerCompactNoReturn(i) ==
    /\ pc[i] = "compact"
    /\ LET c == jsonCompact(body[i]) IN
       /\ resp' = [resp EXCEPT ![i] = IF c.err THEN httpError(@, ErrInvalidJSON, 400) ELSE @]
       /\ compacted' = [compacted EXCEPT ![i] = c.dst]
       /\ pc' = [pc EXCEPT ![i] = "log"]
    /\ Did(i, "compact")
    /\ UNCHANGED <<endpoint, req, reader, body, wq, stdout, owner>>

\* main.go:47-52: validate and compact.
HandlerCompact(i) ==
    /\ pc[i] = "compact"
    /\ LET c == jsonCompact(body[i]) IN
       IF c.err
       THEN /\ resp' = [resp EXCEPT ![i] = httpError(@, ErrInvalidJSON, 400)]
            /\ pc' = [pc EXCEPT ![i] = "done"]
            /\ UNCHANGED compacted
       ELSE /\ compacted' = [compacted EXCEPT ![i] = c.dst]
            /\ pc' = [pc EXCEPT ![i] = "log"]
            /\ UNCHANGED resp
    /\ Did(i, "compact")
    /\ UNCHANGED <<endpoint, req, reader, body, wq, stdout, owner>>

\* main.go:55: fmt.Println; each Write call on os.Stdout is one step.
HandlerLog(i) ==
    /\ pc[i] = "log"
    /\ LET ws == IF wq[i] = <<>> THEN printlnWrites(compacted[i]) ELSE wq[i] IN
       /\ stdout' = stdout \o Head(ws)
       /\ owner' = owner \o [k \in 1..Len(Head(ws)) |-> i]
       /\ wq' = [wq EXCEPT ![i] = Tail(ws)]
       /\ pc' = [pc EXCEPT ![i] = IF Tail(ws) = <<>> THEN "respond" ELSE "log"]
       /\ steps' = [steps EXCEPT ![i] = IF wq[i] = <<>> THEN Append(@, "log") ELSE @]
    /\ UNCHANGED <<endpoint, req, reader, body, compacted, resp>>

\* main.go:58-59: the success response.
HandlerRespond(i) ==
    /\ pc[i] = "respond"
    /\ resp' = [resp EXCEPT ![i] = writeResponse(@, 200, StatusSuccess)]
    /\ pc' = [pc EXCEPT ![i] = "done"]
    /\ Did(i, "respond")
    /\ UNCHANGED <<endpoint, req, reader, body, compacted, wq, stdout, owner>>

Handler(i) ==
    \/ HandlerStart(i)
    \/ HandlerRead(i)
    \/ HandlerCompact(i)
    \/ HandlerLog(i)
    \/ HandlerRespond(i)

\* The server: requests arrive and are served concurrently.
Next ==
    \E i \in Requests :
        \/ Arrive(i)
        \/ Serve(i)
        \/ HealthHandler(i)
        \/ NotFoundHandler(i)
        \/ RedirectHandler(i)
        \/ Handler(i)

Spec == Init /\ [][Next]_vars

(***************************************************************************)
(* The handler called directly on one request, as the tests call it        *)
(* (part_000:117-119), over every body of at most MaxLen bytes of          *)
(* ExhBytes and over the test bodies under every encoding and framing.     *)
(***************************************************************************)
MaxLen == 4

ExhBytes == {"{", "}", "[", "]", ":", ",", "\"", " ", "\n", "1"}

TestBodies == {BodySingleLine, BodyMultiline, BodyInvalid, BodyEmpty, BodyNonJSON, BodyArray}

\* b with byte c inserted before position k, and b without byte k.
InsertAt(b, k, c) == SubSeq(b, 1, k - 1) \o <<c>> \o SubSeq(b, k, Len(b))

DeleteAt(b, k) == SubSeq(b, 1, k - 1) \o SubSeq(b, k + 1, Len(b))

\* The test bodies, and each with one whitespace byte added or one byte lost.
VariedBodies ==
    TestBodies
    \cup {InsertAt(t[1], t[2], t[3]) : t \in
            {t \in TestBodies \X (1..19) \X {" ", "\n"} : t[2] <= Len(t[1]) + 1}}
    \cup {DeleteAt(t[1], t[2]) : t \in {t \in TestBodies \X (1..18) : t[2] <= Len(t[1])}}

Encodings == {EncNone, EncGzip, EncMixedCase, EncXGzip, EncBr, EncZip}

Framings == {"raw", "gzip", "gzip2", "truncated", "badcrc", "trailing", "headeronly"}

\* handler.ServeHTTP(rr, req) on request r.
Called(r) ==
    /\ req = [i \in Requests |-> IF i = 1 THEN r ELSE NoRequest]
    /\ pc = [i \in Requests |-> IF i = 1 THEN "handler" ELSE "idle"]

InitHandler ==
    /\ endpoint = DefaultEndpoint
    /\ InitLocals
    /\ \/ \E n \in 0..MaxLen : \E b \in [1..n -> ExhBytes] :
             \/ Called(Sent("POST", DefaultEndpoint, EncNone, "raw", b, FALSE))
             \/ Called(Sent("POST", DefaultEndpoint, EncGzip, "gzip", b, FALSE))
       \/ \E b \in VariedBodies :
             \/ Called(Sent("POST", DefaultEndpoint, EncNone, "raw", b, FALSE))
             \/ Called(Sent("POST", DefaultEndpoint, EncGzip, "gzip", b, FALSE))
       \/ \E e \in Encodings, f \in Framings, b \in TestBodies, br \in BOOLEAN :
             Called(Sent("POST", DefaultEndpoint, e, f, b, br))

NextHandler == \E i \in Requests : Handler(i)

SpecHandler == InitHandler /\ [][NextHandler]_vars

(***************************************************************************)
(* The server under the scheduling the Go runtime gives: every goroutine   *)
(* that can take a step eventually takes it.  Arrivals are not forced.     *)
(***************************************************************************)
LiveInputs ==
    { Sent("POST", DefaultEndpoint, EncNone, "raw", BodySingleLine, FALSE),
      Sent("PUT", DefaultEndpoint, EncNone, "raw", BodyInvalid, FALSE),
      Sent("POST", DefaultEndpoint, EncGzip, "badcrc", BodySingleLine, FALSE),
      Sent("GET", HealthPath, EncNone, "raw", BodyEmpty, FALSE),
      Sent("GET", <<"", "health">>, EncNone, "raw", BodyEmpty, FALSE) }

ArriveLive(i) == ArriveFrom(i, LiveInputs)

Serving(i) ==
    \/ Serve(i)
    \/ HealthHandler(i)
    \/ NotFoundHandler(i)
    \/ RedirectHandler(i)
    \/ Handler(i)

NextLive == \E i \in Requests : ArriveLive(i) \/ Serving(i)

SpecLive == Init /\ [][NextLive]_vars /\ \A i \in Requests : WF_vars(Serving(i))

(***************************************************************************)
(* Vocabulary of the properties                                            *)
(***************************************************************************)
\* The header value contains "gzip", letters compared without case.
ContainsGzipAnyCase(h) ==
    \E k \in 1..(Len(h) - 3) :
        /\ h[k] \in {"g", "G"}
        /\ h[k + 1] \in {"z", "Z"}
        /\ h[k + 2] \in {"i", "I"}
        /\ h[k + 3] \in {"p", "P"}

\* The ingestion handler ran for request i, and has returned.
Ran(i) == Len(steps[i]) > 0 /\ "handler" \in {steps[i][k] : k \in 1..Len(steps[i])}

Returned(i) == Ran(i) /\ pc[i] = "done"

\* The bytes of the sink that request i wrote.
RECURSIVE OwnedFrom(_, _)
OwnedFrom(i, k) ==
    IF k > Len(stdout) THEN <<>>
    ELSE (IF owner[k] = i THEN <<stdout[k]>> ELSE <<>>) \o OwnedFrom(i, k + 1)

Owned(i) == OwnedFrom(i, 1)

Newlines(b) == Cardinality({k \in 1..Len(b) : b[k] = "\n"})

IsPrefix(a, b) == Len(a) <= Len(b) /\ SubSeq(b, 1, Len(a)) = a

SuccessResponse ==
    [status |-> 200, ctype |-> "application/json", nosniff |-> FALSE,
     body |-> "{\"status\":\"success\"}", n |-> 1]

\* Answered 400 with the given error message.
Rejected(i, msg) ==
    /\ resp[i].status = 400
    /\ resp[i].n = 1
    /\ resp[i].body = "{\"error\":\"" \o msg \o "\"}\n"

(***************************************************************************)
(* Properties of the handler called on one request (SpecHandler)           *)
(***************************************************************************)

\* C1: a request whose body is one well-formed JSON value, with any
\* insignificant whitespace, and whose Content-Encoding does not contain
\* gzip is answered 200 {"status":"success"} with Content-Type
\* application/json, and the sink holds exactly one line: the body without
\* its insignificant whitespace, then one newline.
C1_WellFormedIsLogged ==
    \A i \in Requests :
        (/\ Returned(i)
         /\ ~ContainsGzipAnyCase(req[i].enc)
         /\ ~req[i].broken
         /\ WellFormedJSON(req[i].body))
        => /\ resp[i] = SuccessResponse
           /\ stdout = StripInsignificant(req[i].body) \o <<"\n">>
           /\ Newlines(stdout) = 1

\* The array of two objects, sent with a space after the comma, was logged
\* as one line.
C1_Witness ==
    /\ Returned(1)
    /\ req[1].body = BodyArray
    /\ req[1].enc = EncNone
    /\ ~req[1].broken
    /\ resp[1].status = 200
    /\ Len(stdout) = Len(BodyArray)

\* C2: a request whose body, after decompression if any, is not
\* well-formed JSON is answered 400 "Invalid JSON format" and the sink is
\* left as it was (empty).
C2_MalformedIsRejected ==
    \A i \in Requests :
        (/\ Returned(i)
         /\ ~req[i].broken
         /\ \/ ~ContainsGzipAnyCase(req[i].enc) /\ ~WellFormedJSON(req[i].body)
            \/ /\ ContainsGzipAnyCase(req[i].enc)
               /\ req[i].form \in {"gzip", "gzip2"}
               /\ ~WellFormedJSON(req[i].plain))
        => /\ Rejected(i, "Invalid JSON format")
           /\ stdout = <<>>

\* The empty body was rejected, and so was a compressed malformed body.
C2_Witness ==
    /\ Returned(1)
    /\ req[1].form = "gzip"
    /\ req[1].plain = BodyInvalid
    /\ req[1].enc = EncGzip
    /\ resp[1].status = 400
    /\ steps[1] = <<"handler", "read", "compact">>

\* C5: the body is decompressed exactly when Content-Encoding contains
\* "gzip" in any letter case, and is otherwise read untouched; the gzip
\* compression of a well-formed JSON value gets the response and the line
\* of the value sent uncompressed.
C5_GzipWhenDeclared ==
    \A i \in Requests :
        /\ (Ran(i) /\ ContainsGzipAnyCase(req[i].enc))
           => \/ reader[i].kind = "gzip"
              \/ Rejected(i, "Failed to create gzip reader")
        /\ (Ran(i) /\ ~ContainsGzipAnyCase(req[i].enc))
           => /\ reader[i] = [kind |-> "body", data |-> req[i].body]
              /\ ("read" \in {steps[i][k] : k \in 1..Len(steps[i])} /\ ~req[i].broken)
                 => body[i] = req[i].body
        /\ (/\ Returned(i)
            /\ ContainsGzipAnyCase(req[i].enc)
            /\ req[i].form \in {"gzip", "gzip2"}
            /\ ~req[i].broken
            /\ WellFormedJSON(req[i].plain))
           => /\ resp[i] = SuccessResponse
              /\ stdout = StripInsignificant(req[i].plain) \o <<"\n">>

\* A compressed body under "GZip" was decompressed and logged.
C5_Witness ==
    /\ Returned(1)
    /\ req[1].enc = EncMixedCase
    /\ req[1].form = "gzip"
    /\ req[1].plain = BodySingleLine
    /\ ~req[1].broken
    /\ resp[1].status = 200
    /\ Len(stdout) = Len(BodySingleLine)

\* C6: under a gzip Content-Encoding, a body that is no gzip stream (empty
\* included) is answered 400 "Failed to create gzip reader" by the first
\* step, and a stream that opens but cannot be read to its end is answered
\* 400 "Failed to read request body" by the read step; neither reaches the
\* validate or log steps and the sink is left as it was.
C6_UndecodableIsRejected ==
    \A i \in Requests :
        (Returned(i) /\ ContainsGzipAnyCase(req[i].enc))
        => /\ req[i].form = "raw"
              => /\ Rejected(i, "Failed to create gzip reader")
                 /\ steps[i] = <<"handler">>
                 /\ stdout = <<>>
           /\ (\/ req[i].form \in {"truncated", "badcrc", "trailing", "headeronly"}
               \/ req[i].form \in {"gzip", "gzip2"} /\ req[i].broken)
              => /\ Rejected(i, "Failed to read request body")
                 /\ steps[i] = <<"handler", "read">>
                 /\ stdout = <<>>

\* A stream cut before its trailer failed in the read step.
C6_Witness ==
    /\ Returned(1)
    /\ req[1].enc = EncXGzip
    /\ req[1].form = "truncated"
    /\ req[1].plain = BodySingleLine
    /\ resp[1].status = 400
    /\ steps[1] = <<"handler", "read">>

(***************************************************************************)
(* Properties of the server with concurrent requests (Spec)                *)
(***************************************************************************)
\* The handler validated request i's body and made its Println call.
Logged(i) == Ran(i) /\ "log" \in {steps[i][k] : k \in 1..Len(steps[i])} /\ wq[i] = <<>>

C3_SinkMatchesAnswers ==
    /\ \A i \in Requests :
          /\ (Ran(i) /\ resp[i].status = 200)
             => /\ Newlines(Owned(i)) = 1
                /\ Owned(i)[Len(Owned(i))] = "\n"
          /\ resp[i].status = 400 => Owned(i) = <<>>
    /\ Newlines(stdout) = Cardinality({i \in Requests : Logged(i)})

\* C3: a request answered 200 by the handler has exactly one line in the
\* sink, there before the answer; a request answered 400 has none; what is
\* in the sink is never removed or changed; so the lines in the sink number
\* the requests that passed validation and wrote.
C3_OneLinePerAccepted ==
    /\ []C3_SinkMatchesAnswers
    /\ [][IsPrefix(stdout, stdout')]_vars

\* One request was answered 400 and a later one 200, with one line in all.
C3_Witness ==
    /\ Returned(1) /\ resp[1].status = 400
    /\ Returned(2) /\ resp[2].status = 200
    /\ Newlines(stdout) = 1

\* The line of the sink that ends at position k (its newline excluded)
\* starts at LineStart(k).
LineStart(k) ==
    CHOOSE a \in 1..k : /\ a = 1 \/ stdout[a - 1] = "\n"
                        /\ \A m \in a..(k - 1) : stdout[m] # "\n"

\* C4: with handlers running concurrently, every line of the sink is the
\* whole compacted JSON of one accepted request followed by its newline,
\* written by that request alone, and the sink holds no unfinished line.
C4_LinesAreWhole ==
    /\ stdout # <<>> => stdout[Len(stdout)] = "\n"
    /\ \A k \in 1..Len(stdout) :
          stdout[k] = "\n" =>
             \E i \in Requests :
                /\ \A m \in LineStart(k)..k : owner[m] = i
                /\ pc[i] \in {"respond", "done"}
                /\ WellFormedJSON(req[i].plain)
                /\ SubSeq(stdout, LineStart(k), k - 1) = StripInsignificant(req[i].plain)

\* Two handlers were past validation at once and the one that arrived
\* second wrote first.
C4_Witness ==
    /\ pc[1] = "respond"
    /\ pc[2] = "respond"
    /\ Newlines(stdout) = 2
    /\ owner[1] = 2
    /\ req[1].plain # req[2].plain

\* C7: what the handler answers and writes depends on the body and the
\* Content-Encoding alone (and on the body arriving whole): two requests
\* that agree on them get the same response and the same line, whatever
\* their methods, their order and what ran beside them.
C7_MethodAndHistoryBlind ==
    \A i, j \in Requests :
        (/\ Returned(i) /\ Returned(j)
         /\ req[i].body = req[j].body
         /\ req[i].enc = req[j].enc
         /\ req[i].broken = req[j].broken)
        => /\ resp[i] = resp[j]
           /\ Owned(i) = Owned(j)

\* A POST and a GET with the same body were both answered 200 with a line
\* each.
C7_Witness ==
    /\ Returned(1) /\ Returned(2)
    /\ req[1].method = "GET" /\ req[2].method = "POST"
    /\ req[1].body = req[2].body
    /\ req[1].enc = req[2].enc
    /\ resp[1].status = 200
    /\ Newlines(stdout) = 2

\* The request has been answered by the routing layer or a handler.
Answered(i) == pc[i] = "done"

IsClean(path) ==
    /\ \A k \in 1..Len(path) : path[k] \notin {".", ".."}
    /\ \A k \in 1..(Len(path) - 1) : path[k] # ""
    /\ Len(path) >= 1

HealthyResponse ==
    [status |-> 200, ctype |-> "application/json", nosniff |-> FALSE,
     body |-> "{\"status\":\"healthy\"}", n |-> 1]

\* C9 as stated: by path alone, the endpoint goes to the ingestion handler,
\* /health is answered 200 {"status":"healthy"}, every other path 404, and
\* neither of the last two writes to the sink.
C9_AnyOtherPathIs404 ==
    \A i \in Requests :
        Answered(i) =>
            /\ req[i].path = endpoint => Ran(i)
            /\ (req[i].path = HealthPath /\ endpoint # HealthPath)
               => resp[i] = HealthyResponse /\ Owned(i) = <<>>
            /\ req[i].path \notin {endpoint, HealthPath}
               => resp[i].status = 404 /\ Owned(i) = <<>>

\* The mux redirects instead of matching: the path is not clean and the
\* method is not CONNECT.
Redirected(i) == ~IsClean(req[i].path) /\ req[i].method # "CONNECT"

\* C9, amended: as above, with 404 for every other path that is matched, and
\* for a path that is not clean (an empty, "." or ".." segment) under a
\* method other than CONNECT a 301 redirect, which runs no handler and
\* writes nothing.
C9_OtherCleanPathIs404 ==
    \A i \in Requests :
        Answered(i) =>
            /\ req[i].path = endpoint => Ran(i)
            /\ (req[i].path = HealthPath /\ endpoint # HealthPath)
               => resp[i] = HealthyResponse /\ Owned(i) = <<>>
            /\ (req[i].path \notin {endpoint, HealthPath} /\ ~Redirected(i))
               => resp[i].status = 404 /\ resp[i].n = 1 /\ ~Ran(i) /\ Owned(i) = <<>>
            /\ Redirected(i)
               => resp[i].status = 301 /\ resp[i].n = 1 /\ ~Ran(i) /\ Owned(i) = <<>>

\* A health check with a body and a gzip header, and a request to /invalid,
\* were answered while the sink stayed empty.
C9_Witness ==
    /\ Answered(1) /\ req[1].path = HealthPath /\ req[1].method = "POST"
    /\ Answered(2) /\ req[2].path = <<"invalid">> /\ resp[2].status = 404
    /\ stdout = <<>>

\* C10: every response the ingestion handler writes, 200 or 400, carries
\* the Content-Type application/json it set on entry.
C10_AlwaysJSONContentType ==
    \A i \in Requests :
        (Ran(i) /\ resp[i].n > 0) => resp[i].ctype = "application/json"

(***************************************************************************)
(* Properties of the server under fair scheduling (SpecLive)               *)
(***************************************************************************)
NoStepTwice(i) ==
    \A k, m \in 1..Len(steps[i]) : steps[i][k] = steps[i][m] => k = m

C8_OneAnswerNoRetry ==
    /\ \A i \in Requests :
          /\ resp[i].n <= 1
          /\ NoStepTwice(i)
          /\ Returned(i) => resp[i].n = 1 /\ resp[i].status \in {200, 400}
          /\ (Ran(i) /\ resp[i].n = 1) => pc[i] = "done"
    /\ (\E i \in Requests : pc[i] = "idle") => ENABLED (\E i \in Requests : ArriveLive(i))

=============================================================================
